---- MODULE Spec2Model ----
(***************************************************************************)
(* Half-Frame Film Splitter: the pair registry (splitImages) and the two   *)
(* batch controllers of App.vue (handleFileSelect, downloadChecked), as    *)
(* the event handlers and await continuations the browser's single thread  *)
(* runs one at a time.  Every action is one task of the event loop: a      *)
(* handler, or the code between two awaits of an async function.           *)
(* The split of one image (splitImageInHalf), the rotation command         *)
(* (rotateToDirection) and the download of one half (downloadHalf) are     *)
(* modelled by what they compute, also as functions of their arguments.    *)
(***************************************************************************)
EXTENDS Integers, Sequences, FiniteSets

\* ------------------------------------------------------------------ bounds
\* Files ever selected for import (each gets a fresh id 1..MaxFiles).
MaxFiles == 5
\* Pairs in the registry when the export specifications start.
MaxPairs == 2
\* Rotate commands issued in a run.
MaxTurns == 4
\* Rotate commands issued in a run that also selects and removes.
MaxEditTurns == 1
\* Wheel events with the pointer away from the centre while a viewer is open.
MaxOffCentre == 1
\* Sample files a one-pair registry is split from.
MaxSample == 2
\* Rotation angles handed to downloadHalf alone: -MaxAngle..MaxAngle.
MaxAngle == 720
\* Width and height of the images handed to splitImageInHalf alone.
MaxDim == 7
\* Length of the file names handed to downloadHalf alone.
MaxName == 4

\* ---------------------------------------------------------------- program
\* const batchSize = 2 (handleFileSelect)
batchSize == 2

VARIABLES
    splitImages,        \* ref<SplitImage[]>: the pair registry
    isImporting,        \* ref(false)
    importProgress,     \* ref({ current, total })
    shouldStopImport,   \* ref(false)
    isDownloading,      \* ref(false)
    downloadProgress,   \* ref({ current, total })
    shouldStopDownload, \* ref(false)
    \* handleFileSelect's frame: where the async function is suspended
    impPc,              \* "idle" | "decoding" | "pause" | "hold" | "aborted"
    fileArray,          \* the filtered selection of the running batch
    impI,               \* the loop variable i
    settled,            \* files of the group in flight already decoded, in settle order
    \* downloadChecked's frame
    dlPc,               \* "idle" | "afterLeft" | "afterRight" | "hold"
    dlI,                \* the loop variable i
    dlImg,              \* the object the local const img refers to
    \* history (not program state)
    nextId,             \* next fresh file id
    appended,           \* ids pushed by the running import batch, in push order
    stopAt,             \* Len(appended) when stopImport was first called, else -1
    exported,           \* downloadHalf calls of the running export batch, in call order
    saved,              \* some downloadHalf call of the running export produced a file
    dlStart,            \* the halves selected when the running export started
    dlCancelled,        \* the running export left its loop by a break
    selChanged,         \* a selection flag was written while the export was running
    regChanged,         \* the registry's membership changed while the export was running
    noopExport,         \* the last downloadChecked call returned at line 332
    lastSel,            \* the files of the file input (event.target.files)
    cmdLog,             \* the rotate commands issued, oldest first
    \* a per-half download (downloadHalf and its img.onload callback)
    call,               \* the arguments of the last call
    ret,                \* what the callback of that call produced
    \* one FrameView's fullscreen viewer
    fullscreenSide,     \* ref<'left' | 'right' | null>(null)
    zoomLevel,          \* ref(1), in tenths
    panX,               \* ref(0), an exact fraction of a pixel
    panY,               \* ref(0), an exact fraction of a pixel
    offCentre           \* wheel events away from the centre since the viewer opened

vars == <<splitImages, isImporting, importProgress, shouldStopImport,
          isDownloading, downloadProgress, shouldStopDownload,
          impPc, fileArray, impI, settled, dlPc, dlI, dlImg,
          nextId, appended, stopAt, exported, saved, dlStart, dlCancelled,
          selChanged, regChanged, noopExport, lastSel, cmdLog, call, ret,
          fullscreenSide, zoomLevel, panX, panY, offCentre>>

importVars == <<isImporting, importProgress, shouldStopImport,
                impPc, fileArray, impI, settled, nextId, appended, stopAt,
                lastSel>>
exportVars == <<isDownloading, downloadProgress, shouldStopDownload,
                dlPc, dlI, dlImg, exported, saved, dlStart, dlCancelled,
                noopExport>>
viewVars == <<fullscreenSide, zoomLevel, panX, panY, offCentre>>
\* What neither the registry operations nor the batch controllers write.
halfVars == <<cmdLog, call, ret, viewVars>>

\* fullscreenSide's null.
Null == "null"

\* The whole number n as a fraction.
Whole(n) == [num |-> n, den |-> 1]

\* FrameView's setup, lines 30-33.
FrameViewSetup ==
    /\ fullscreenSide = Null
    /\ zoomLevel = 10
    /\ panX = Whole(0)
    /\ panY = Whole(0)
    /\ offCentre = 0

\* No call made, nothing produced.
NoCall == [fn |-> "none"]
NoRet == [kind |-> "none"]

Min(a, b) == IF a < b THEN a ELSE b

\* No object: the value of img outside a loop iteration.
NoPair == [id |-> 0, leftChecked |-> FALSE, rightChecked |-> FALSE,
           leftRotation |-> 0, rightRotation |-> 0]

\* ------------------------------------------------------------------- split
\* Lengths the code computes as `dimension / 2` are not integers for an odd
\* dimension.  They are kept exactly, in half pixels: a name ending in 2
\* holds twice the length.

\* The files a user can select, by id: decoded size and name.  Three sizes
\* in turn: wide with even width, tall with odd height, square.
FileWidth(id) == CASE id % 3 = 1 -> 6 [] id % 3 = 2 -> 2 [] OTHER -> 4
FileHeight(id) == CASE id % 3 = 1 -> 2 [] id % 3 = 2 -> 7 [] OTHER -> 4
FileName(id) ==
    IF id % 2 = 1 THEN <<"r", "o", "l", "l", "1", ".", "j", "p", "g">>
    ELSE <<"a", ".", "b", ".", "j", "p", "g">>

\* A selected file: ok says whether FileReader and Image decode it.
File(id, ok) == [id |-> id, ok |-> ok, width |-> FileWidth(id),
                 height |-> FileHeight(id), name |-> FileName(id)]

\* Mutant of IsHorizontal: a square image counts as wide.
IsHorizontalOrSquare(width, height) == width >= height

\* const isHorizontal = img.width > img.height
IsHorizontal(width, height) == width > height

\* canvas.width = v / canvas.height = v: the attribute is an unsigned long,
\* the fraction of a non-negative number is dropped.
CanvasSize(v2) == v2 \div 2

\* A canvas of the size assigned (w2, h2) after
\* drawImage(img, sx, sy, sw, sh, 0, 0, sw, sh): unscaled, so it shows the
\* source from (sx, sy) on, as far as the canvas reaches.
Drawn(w2, h2, sx2, sy2) ==
    [width |-> CanvasSize(w2), height |-> CanvasSize(h2),
     sx2 |-> sx2, sy2 |-> sy2]

\* canvas.toDataURL(type, quality)
ToDataURL(canvas, type) == [type |-> type, canvas |-> canvas]

\* img.onload of splitImageInHalf for a decoded image of the given size:
\* the object the promise resolves with.
SplitImageInHalf(width, height, fileName) ==
    LET halfWidth2 == width       \* const halfWidth = img.width / 2
        halfHeight2 == height     \* const halfHeight = img.height / 2
        first == IF IsHorizontal(width, height)
                 THEN Drawn(halfWidth2, 2 * height, 0, 0)
                 ELSE Drawn(2 * width, halfHeight2, 0, 0)
        second == IF IsHorizontal(width, height)
                  THEN Drawn(halfWidth2, 2 * height, halfWidth2, 0)
                  ELSE Drawn(2 * width, halfHeight2, 0, halfHeight2)
    IN [leftHalf |-> ToDataURL(first, "image/jpeg"),
        rightHalf |-> ToDataURL(second, "image/jpeg"),
        leftHalfOriginal |-> ToDataURL(first, "image/png"),
        rightHalfOriginal |-> ToDataURL(second, "image/png"),
        originalName |-> fileName,
        leftRotation |-> 0, rightRotation |-> 0,
        leftChecked |-> FALSE, rightChecked |-> FALSE]

\* Mutant of NewPair: the left half arrives selected.
NewPairSelected(f) ==
    LET split == SplitImageInHalf(f.width, f.height, f.name) IN
    [id |-> f.id,
     leftHalf |-> split.leftHalf, rightHalf |-> split.rightHalf,
     leftHalfOriginal |-> split.leftHalfOriginal,
     rightHalfOriginal |-> split.rightHalfOriginal,
     originalName |-> split.originalName,
     leftRotation |-> split.leftRotation, rightRotation |-> split.rightRotation,
     leftChecked |-> TRUE, rightChecked |-> split.rightChecked]

\* The SplitImage processFile resolves with for file f.  id is not a field
\* of the object: it names the object, so that two pairs split from equal
\* files stay apart.
NewPair(f) ==
    LET split == SplitImageInHalf(f.width, f.height, f.name) IN
    [id |-> f.id,
     leftHalf |-> split.leftHalf, rightHalf |-> split.rightHalf,
     leftHalfOriginal |-> split.leftHalfOriginal,
     rightHalfOriginal |-> split.rightHalfOriginal,
     originalName |-> split.originalName,
     leftRotation |-> split.leftRotation, rightRotation |-> split.rightRotation,
     leftChecked |-> split.leftChecked, rightChecked |-> split.rightChecked]

Init ==
    /\ splitImages = <<>>
    /\ isImporting = FALSE
    /\ importProgress = [current |-> 0, total |-> 0]
    /\ shouldStopImport = FALSE
    /\ isDownloading = FALSE
    /\ downloadProgress = [current |-> 0, total |-> 0]
    /\ shouldStopDownload = FALSE
    /\ impPc = "idle"
    /\ fileArray = <<>>
    /\ impI = 0
    /\ settled = <<>>
    /\ dlPc = "idle"
    /\ dlI = 0
    /\ dlImg = NoPair
    /\ nextId = 1
    /\ appended = <<>>
    /\ stopAt = -1
    /\ exported = <<>>
    /\ saved = FALSE
    /\ dlStart = <<>>
    /\ dlCancelled = FALSE
    /\ selChanged = FALSE
    /\ regChanged = FALSE
    /\ noopExport = FALSE
    /\ lastSel = <<>>
    /\ cmdLog = <<>>
    /\ call = NoCall
    /\ ret = NoRet
    /\ FrameViewSetup

\* ------------------------------------------------------------ import batch
\* A user selection: files in selection order.  "image" decodes, "corrupt"
\* has an image content type but fails in FileReader / Image (onerror),
\* "other" has a content type that does not start with image/.
FileKinds == {"image", "corrupt", "other"}

Selections == UNION {[1..n -> FileKinds] : n \in 0..MaxFiles}

\* Mutant of FilterImages: the content type is not looked at.
RECURSIVE FilterNothing(_, _)
FilterNothing(sel, id) ==
    IF sel = <<>> THEN <<>>
    ELSE <<File(id, Head(sel) = "image")>> \o FilterNothing(Tail(sel), id + 1)

\* Array.from(files).filter((file) => file.type.startsWith('image/')),
\* each kept file given a fresh id.
RECURSIVE FilterImages(_, _)
FilterImages(sel, id) ==
    IF sel = <<>> THEN <<>>
    ELSE IF Head(sel) = "other" THEN FilterImages(Tail(sel), id)
    ELSE <<File(id, Head(sel) = "image")>>
         \o FilterImages(Tail(sel), id + 1)

\* Mutant of Batch: the slice's end is one too far, so groups overlap.
BatchOneTooFar(i) == [j \in 1..(Min(i + batchSize + 1, Len(fileArray)) - i) |-> i + j]

\* fileArray.slice(i, i + batchSize), as 1-based positions of fileArray.
Batch(i) == [j \in 1..(Min(i + batchSize, Len(fileArray)) - i) |-> i + j]

InSeq(x, s) == \E k \in 1..Len(s) : s[k] = x

\* Mutant of PromiseAll: results collected as the decodes finish.
PromiseAllAsSettled(batch, order) == order

\* Promise.all keeps the order of its input, not the order of settlement.
PromiseAll(batch, order) == batch

Ids(pairs) == [k \in 1..Len(pairs) |-> pairs[k].id]

\* Mutant of StartGroup: the loop does not look at shouldStopImport.
StartGroupUnchecked(i) ==
    /\ impPc' = "decoding"
    /\ impI' = i

\* Lines 205-212 at loop index i: the cancellation check, then the group's
\* decodes are started and the function awaits Promise.all.
StartGroup(i) ==
    IF shouldStopImport
    THEN /\ impPc' = "hold"
         /\ impI' = i
    ELSE /\ impPc' = "decoding"
         /\ impI' = i

\* @change="handleFileSelect": lines 186-212, up to the first await.
HandleFileSelect(sel) ==
    /\ ~isImporting
    /\ impPc = "idle"
    /\ LET fa == FilterImages(sel, nextId) IN
       IF Len(sel) = 0 \/ Len(fa) = 0
       THEN /\ lastSel' = sel
            /\ UNCHANGED <<splitImages, isImporting, importProgress,
                           shouldStopImport, impPc, fileArray, impI, settled,
                           nextId, appended, stopAt, exportVars, halfVars,
                           selChanged, regChanged>>
       ELSE /\ nextId + Len(fa) - 1 <= MaxFiles
            /\ lastSel' = sel
            /\ isImporting' = TRUE
            /\ shouldStopImport' = FALSE
            /\ importProgress' = [current |-> 0, total |-> Len(fa)]
            /\ fileArray' = fa
            /\ impPc' = "decoding"
            /\ impI' = 0
            /\ settled' = <<>>
            /\ nextId' = nextId + Len(fa)
            /\ appended' = <<>>
            /\ stopAt' = -1
            /\ UNCHANGED <<splitImages, exportVars, halfVars, selChanged, regChanged>>


\* A change of the registry's membership, seen by a running export.
RegistryEdited == regChanged' = (regChanged \/ dlPc \in {"afterLeft", "afterRight"})

\* Lines 215-227 after Promise.all resolved with results: push, progress,
\* then either the 10 ms pause or the end of the loop and the 500 ms hold.
GroupDone(results) ==
    /\ splitImages' = splitImages \o results
    /\ appended' = appended \o Ids(results)
    /\ importProgress' =
         [importProgress EXCEPT !.current = Min(impI + batchSize, Len(fileArray))]
    /\ RegistryEdited
    /\ IF impI + batchSize < Len(fileArray)
       THEN impPc' = "pause" /\ impI' = impI
       ELSE impPc' = "hold" /\ impI' = impI + batchSize

\* processFile(fileArray[k]) settles (reader.onload / img.onload or an
\* onerror).  A rejection rejects Promise.all at once: the await at line 212
\* throws, nothing catches it, and handleFileSelect ends there.  When the
\* last file of the group resolves, Promise.all resolves in the same task.
\* settled keeps the group's settle order until the next group starts.
DecodeSettle(k) ==
    /\ impPc = "decoding"
    /\ InSeq(k, Batch(impI))
    /\ ~InSeq(k, settled)
    /\ IF ~fileArray[k].ok
       THEN /\ impPc' = "aborted"
            /\ settled' = <<>>
            /\ UNCHANGED <<splitImages, appended, importProgress, impI, regChanged>>
       ELSE /\ settled' = Append(settled, k)
            /\ IF Len(settled) + 1 < Len(Batch(impI))
               THEN UNCHANGED <<splitImages, appended, importProgress, impPc,
                                impI, regChanged>>
               ELSE LET order == PromiseAll(Batch(impI), Append(settled, k)) IN
                    GroupDone([j \in 1..Len(order) |-> NewPair(fileArray[order[j]])])
    /\ UNCHANGED <<isImporting, shouldStopImport, fileArray, nextId, stopAt,
                   lastSel, exportVars, halfVars, selChanged>>

\* The 10 ms timer of line 222 fires: i += batchSize, the loop test (true
\* here), the cancellation check and the next group's start.
PauseDone ==
    /\ impPc = "pause"
    /\ StartGroup(impI + batchSize)
    /\ settled' = <<>>
    /\ UNCHANGED <<splitImages, isImporting, importProgress, shouldStopImport,
                   fileArray, nextId, appended, stopAt, lastSel, exportVars,
                   halfVars, selChanged, regChanged>>

\* The 500 ms timer of line 227 fires: lines 228-232.
ImportHoldDone ==
    /\ impPc = "hold"
    /\ isImporting' = FALSE
    /\ shouldStopImport' = FALSE
    /\ impPc' = "idle"
    /\ fileArray' = <<>>
    /\ impI' = 0
    /\ settled' = <<>>
    /\ appended' = <<>>
    /\ stopAt' = -1
    /\ lastSel' = <<>>
    /\ UNCHANGED <<splitImages, importProgress, nextId, exportVars, halfVars,
                   selChanged, regChanged>>

\* @click="stopImport" (the button exists while isImporting).
StopImport ==
    /\ isImporting
    /\ shouldStopImport' = TRUE
    /\ stopAt' = IF stopAt = -1 THEN Len(appended) ELSE stopAt
    /\ UNCHANGED <<splitImages, isImporting, importProgress, impPc, fileArray,
                   impI, settled, nextId, appended, lastSel, exportVars,
                   halfVars, selChanged, regChanged>>

\* ---------------------------------------------------------------- registry
\* Mutant of RemoveAt: splice(index) without a count removes the rest too.
RemoveFrom(s, index) == SubSeq(s, 1, index - 1)

\* Mutant of RemoveAt: the pair after the one asked for is removed.
RemoveAtNext(s, index) == SubSeq(s, 1, index) \o SubSeq(s, index + 2, Len(s))

RemoveAt(s, index) == SubSeq(s, 1, index - 1) \o SubSeq(s, index + 1, Len(s))

\* @remove="removeImagePair": splice(index, 1); index is 0-based in the code,
\* at is the same position 1-based (FrameView emits its own index).
RemoveImagePair(at) ==
    /\ at \in 1..Len(splitImages)
    /\ splitImages' = RemoveAt(splitImages, at)
    /\ RegistryEdited
    /\ UNCHANGED <<importVars, halfVars, exportVars, selChanged>>

\* @click="clearAll" (the button exists while the registry is not empty).
ClearAll ==
    /\ Len(splitImages) > 0
    /\ splitImages' = <<>>
    /\ RegistryEdited
    /\ UNCHANGED <<importVars, halfVars, exportVars, selChanged>>

\* --------------------------------------------------------------- selection
\* A write to splitImages[at] is a write to the object img may refer to.
WritePair(at, p) ==
    /\ splitImages' = [splitImages EXCEPT ![at] = p]
    /\ dlImg' = IF dlImg.id = p.id THEN p ELSE dlImg

\* Mutant of ToggleCheck: the command flips both flags of the pair.
ToggleCheckPair(at, side) ==
    /\ at \in 1..Len(splitImages)
    /\ LET image == splitImages[at] IN
       WritePair(at, [image EXCEPT !.leftChecked = ~image.leftChecked,
                                   !.rightChecked = ~image.rightChecked])
    /\ selChanged' = (selChanged \/ dlPc \in {"afterLeft", "afterRight"})
    /\ UNCHANGED <<importVars, halfVars, isDownloading, downloadProgress,
                   shouldStopDownload, dlPc, dlI, exported, saved, dlStart,
                   dlCancelled, regChanged, noopExport>>

\* @toggle-check="toggleCheck": lines 261-270.
ToggleCheck(at, side) ==
    /\ at \in 1..Len(splitImages)
    /\ LET image == splitImages[at] IN
       IF side = "left"
       THEN WritePair(at, [image EXCEPT !.leftChecked = ~image.leftChecked])
       ELSE WritePair(at, [image EXCEPT !.rightChecked = ~image.rightChecked])
    /\ selChanged' = (selChanged \/ dlPc \in {"afterLeft", "afterRight"})
    /\ UNCHANGED <<importVars, halfVars, isDownloading, downloadProgress,
                   shouldStopDownload, dlPc, dlI, exported, saved, dlStart,
                   dlCancelled, regChanged, noopExport>>

\* ------------------------------------------------------------ export batch
Sides == {"left", "right"}

\* checkedCount / the reduce of lines 328-330.
RECURSIVE CheckedCount(_)
CheckedCount(imgs) ==
    IF imgs = <<>> THEN 0
    ELSE (IF Head(imgs).leftChecked THEN 1 ELSE 0)
         + (IF Head(imgs).rightChecked THEN 1 ELSE 0)
         + CheckedCount(Tail(imgs))

\* -------------------------------------------------------------- select all
\* allChecked, get: lines 32-35.
allChecked ==
    IF Len(splitImages) = 0 THEN FALSE
    ELSE \A k \in 1..Len(splitImages) :
             splitImages[k].leftChecked /\ splitImages[k].rightChecked

\* hasCheckedItems: lines 44-46.
hasCheckedItems ==
    \E k \in 1..Len(splitImages) :
        splitImages[k].leftChecked \/ splitImages[k].rightChecked

\* checkedCount: lines 48-52, the same reduce as in downloadChecked.
checkedCount == CheckedCount(splitImages)

\* Mutant of SetAllChecked: the setter writes the left flags only.
SetAllCheckedLeft(value) ==
    /\ splitImages' = [k \in 1..Len(splitImages) |->
                          [splitImages[k] EXCEPT !.leftChecked = value]]
    /\ dlImg' = IF \E k \in 1..Len(splitImages) : splitImages[k].id = dlImg.id
                THEN [dlImg EXCEPT !.leftChecked = value]
                ELSE dlImg
    /\ selChanged' = (selChanged \/ dlPc \in {"afterLeft", "afterRight"})
    /\ UNCHANGED <<importVars, halfVars, isDownloading, downloadProgress,
                   shouldStopDownload, dlPc, dlI, exported, saved, dlStart,
                   dlCancelled, regChanged, noopExport>>

\* allChecked, set: lines 36-41.  The forEach writes the objects in the
\* registry, the one img refers to among them if it is still there.
SetAllChecked(value) ==
    /\ splitImages' = [k \in 1..Len(splitImages) |->
                          [splitImages[k] EXCEPT !.leftChecked = value,
                                                 !.rightChecked = value]]
    /\ dlImg' = IF \E k \in 1..Len(splitImages) : splitImages[k].id = dlImg.id
                THEN [dlImg EXCEPT !.leftChecked = value,
                                   !.rightChecked = value]
                ELSE dlImg
    /\ selChanged' = (selChanged \/ dlPc \in {"afterLeft", "afterRight"})
    /\ UNCHANGED <<importVars, halfVars, isDownloading, downloadProgress,
                   shouldStopDownload, dlPc, dlI, exported, saved, dlStart,
                   dlCancelled, regChanged, noopExport>>

\* The Select All checkbox, lines 459-463: shown while the registry is not
\* empty, rendered from the getter, and a click hands the setter the
\* opposite of what it shows.
SelectAllClick ==
    /\ Len(splitImages) > 0
    /\ SetAllChecked(~allChecked)

\* What the environment makes of one downloadHalf call: the image loads, a
\* 2d context and a blob exist and the file is saved (TRUE), or one of them
\* is missing and the callback returns without a download (FALSE).
EncodeOutcomes == {TRUE, FALSE}

\* Mutant of ScanFrom: a pair whose left half is not selected is passed
\* over without a look at its right half.
RECURSIVE ScanFromLeftOnly(_, _)
ScanFromLeftOnly(i, stop) ==
    IF i >= Len(splitImages)
    THEN [pc |-> "hold", i |-> 0, side |-> "none", broke |-> FALSE]
    ELSE IF stop
    THEN [pc |-> "hold", i |-> 0, side |-> "none", broke |-> TRUE]
    ELSE IF splitImages[i + 1].leftChecked
    THEN [pc |-> "afterLeft", i |-> i, side |-> "left", broke |-> FALSE]
    ELSE ScanFromLeftOnly(i + 1, stop)

\* The for loop of lines 338-361 run from index i (0-based) to its next
\* await or to its end: pc is where downloadChecked suspends, side the half
\* whose downloadHalf call precedes the await, broke whether a break ended
\* the loop (whose variable i is then gone: 0).
RECURSIVE ScanFrom(_, _)
ScanFrom(i, stop) ==
    IF i >= Len(splitImages)
    THEN [pc |-> "hold", i |-> 0, side |-> "none", broke |-> FALSE]
    ELSE IF stop
    THEN [pc |-> "hold", i |-> 0, side |-> "none", broke |-> TRUE]
    ELSE IF splitImages[i + 1].leftChecked
    THEN [pc |-> "afterLeft", i |-> i, side |-> "left", broke |-> FALSE]
    ELSE IF splitImages[i + 1].rightChecked
    THEN [pc |-> "afterRight", i |-> i, side |-> "right", broke |-> FALSE]
    ELSE ScanFrom(i + 1, stop)

\* Mutant of ExportHalf: a failed encode throws into downloadChecked, which
\* ends there.
ExportHalfThrowing(img, side, prog, exp, sv) ==
    /\ exported' = Append(exp, [id |-> img.id, side |-> side])
    /\ \E ok \in EncodeOutcomes :
         /\ saved' = (sv \/ ok)
         /\ dlPc' = IF ~ok THEN "aborted"
                    ELSE IF side = "left" THEN "afterLeft" ELSE "afterRight"
    /\ downloadProgress' = [prog EXCEPT !.current = prog.current + 1]

\* One half's export, lines 349-352 (left) and 357-359 (right), from progress
\* record prog and call history exp, sv: downloadHalf(...), current++ and the
\* await of the 100 ms timer.  downloadHalf only registers callbacks (the
\* encode runs in img.onload and canvas.toBlob): it returns nothing, cannot
\* throw, and what becomes of the encode never reaches downloadChecked.
ExportHalf(img, side, prog, exp, sv) ==
    /\ exported' = Append(exp, [id |-> img.id, side |-> side])
    /\ \E ok \in EncodeOutcomes : saved' = (sv \/ ok)
    /\ dlPc' = IF side = "left" THEN "afterLeft" ELSE "afterRight"
    /\ downloadProgress' = [prog EXCEPT !.current = prog.current + 1]

\* The loop run to r (a result of ScanFrom), with img = splitImages[r.i]
\* from line 344 on.
RunLoop(r, prog, exp, sv) ==
    /\ dlI' = r.i
    /\ dlCancelled' = r.broke
    /\ IF r.side = "none"
       THEN /\ dlPc' = "hold"
            /\ dlImg' = NoPair
            /\ exported' = exp
            /\ saved' = sv
            /\ downloadProgress' = prog
       ELSE /\ dlImg' = splitImages[r.i + 1]
            /\ ExportHalf(splitImages[r.i + 1], r.side, prog, exp, sv)

\* The selected halves of imgs: pairs in order, left before right.
RECURSIVE SelectedHalves(_)
SelectedHalves(imgs) ==
    IF imgs = <<>> THEN <<>>
    ELSE (IF Head(imgs).leftChecked
          THEN <<[id |-> Head(imgs).id, side |-> "left"]>> ELSE <<>>)
         \o (IF Head(imgs).rightChecked
             THEN <<[id |-> Head(imgs).id, side |-> "right"]>> ELSE <<>>)
         \o SelectedHalves(Tail(imgs))

\* Mutant of NothingSelected: the early return is missing.
NothingSelectedIgnored(total) == FALSE

\* if (total === 0) return (line 332).
NothingSelected(total) == total = 0

\* Mutant of DownloadChecked: the running flag is not set.
DownloadCheckedUnflagged ==
    /\ Len(splitImages) > 0
    /\ ~isDownloading
    /\ dlPc = "idle"
    /\ LET total == CheckedCount(splitImages) IN
       /\ ~NothingSelected(total)
       /\ noopExport' = FALSE
       /\ shouldStopDownload' = FALSE
       /\ dlStart' = SelectedHalves(splitImages)
       /\ RunLoop(ScanFrom(0, FALSE), [current |-> 0, total |-> total],
                  <<>>, FALSE)
       /\ UNCHANGED <<splitImages, importVars, halfVars, isDownloading,
                      selChanged, regChanged>>

\* @click="downloadChecked": lines 326-352, up to the first await.  The
\* button exists while the registry is not empty and no export is running;
\* it is disabled while nothing is selected, and the function is modelled
\* for a call in that state too.
DownloadChecked ==
    /\ Len(splitImages) > 0
    /\ ~isDownloading
    /\ dlPc = "idle"
    /\ LET total == CheckedCount(splitImages) IN
       IF NothingSelected(total)
       THEN /\ noopExport' = TRUE
            /\ UNCHANGED <<splitImages, importVars, halfVars, isDownloading,
                           downloadProgress, shouldStopDownload, dlPc, dlI,
                           dlImg, exported, saved, dlStart, dlCancelled,
                           selChanged, regChanged>>
       ELSE /\ noopExport' = FALSE
            /\ isDownloading' = TRUE
            /\ shouldStopDownload' = FALSE
            /\ dlStart' = SelectedHalves(splitImages)
            /\ RunLoop(ScanFrom(0, FALSE), [current |-> 0, total |-> total],
                       <<>>, FALSE)
            /\ UNCHANGED <<splitImages, importVars, halfVars, selChanged, regChanged>>

\* Mutant of BreakBeforeRight: the right half is exported without a look at
\* the flag.
BreakBeforeRightMissing == FALSE

\* if (shouldStopDownload.value) break (line 356).
BreakBeforeRight == shouldStopDownload

\* The 100 ms timer of line 352 fires: lines 355-359 on the same img, then
\* the loop goes on.
AfterLeftDone ==
    /\ dlPc = "afterLeft"
    /\ IF dlImg.rightChecked
       THEN IF BreakBeforeRight
            THEN RunLoop([pc |-> "hold", i |-> 0, side |-> "none", broke |-> TRUE],
                         downloadProgress, exported, saved)
            ELSE /\ ExportHalf(dlImg, "right", downloadProgress, exported, saved)
                 /\ UNCHANGED <<dlI, dlImg, dlCancelled>>
       ELSE RunLoop(ScanFrom(dlI + 1, shouldStopDownload),
                    downloadProgress, exported, saved)
    /\ UNCHANGED <<splitImages, importVars, halfVars, isDownloading, shouldStopDownload,
                   dlStart, selChanged, regChanged, noopExport>>

\* The 100 ms timer of line 359 fires: i++ and the loop goes on.
AfterRightDone ==
    /\ dlPc = "afterRight"
    /\ RunLoop(ScanFrom(dlI + 1, shouldStopDownload),
               downloadProgress, exported, saved)
    /\ UNCHANGED <<splitImages, importVars, halfVars, isDownloading, shouldStopDownload,
                   dlStart, selChanged, regChanged, noopExport>>

\* Mutant of DownloadHoldDone: the cancellation flag is left as it is.
DownloadHoldDoneKeepsStop ==
    /\ dlPc = "hold"
    /\ isDownloading' = FALSE
    /\ dlPc' = "idle"
    /\ dlI' = 0
    /\ dlImg' = NoPair
    /\ exported' = <<>>
    /\ saved' = FALSE
    /\ dlStart' = <<>>
    /\ dlCancelled' = FALSE
    /\ selChanged' = FALSE
    /\ regChanged' = FALSE
    /\ UNCHANGED <<splitImages, importVars, halfVars, downloadProgress,
                   noopExport, shouldStopDownload>>

\* The 500 ms timer of line 364 fires: lines 365-366.
DownloadHoldDone ==
    /\ dlPc = "hold"
    /\ isDownloading' = FALSE
    /\ shouldStopDownload' = FALSE
    /\ dlPc' = "idle"
    /\ dlI' = 0
    /\ dlImg' = NoPair
    /\ exported' = <<>>
    /\ saved' = FALSE
    /\ dlStart' = <<>>
    /\ dlCancelled' = FALSE
    /\ selChanged' = FALSE
    /\ regChanged' = FALSE
    /\ UNCHANGED <<splitImages, importVars, halfVars, downloadProgress, noopExport>>

\* @click="stopDownload" (the button exists while the registry is not empty
\* and isDownloading).
StopDownload ==
    /\ Len(splitImages) > 0
    /\ isDownloading
    /\ shouldStopDownload' = TRUE
    /\ UNCHANGED <<splitImages, importVars, halfVars, isDownloading, downloadProgress,
                   dlPc, dlI, dlImg, exported, saved, dlStart, dlCancelled,
                   selChanged, regChanged, noopExport>>

\* ---------------------------------------------------------------- rotation
\* Mutant of Deltas: an eighth of a turn is among the commands.
DeltasWithEighth == {0, 90, -90, 180, 45}

\* deltaRotation: 0 | 90 | -90 | 180
Deltas == {0, 90, -90, 180}

\* Mutant of NewRotation: the command gives the angle, not a turn.
NewRotationAbsolute(currentRotation, deltaRotation) == deltaRotation

\* Mutant of NewRotation: the sum is brought back into [0, 360).
NewRotationWrapped(currentRotation, deltaRotation) ==
    (currentRotation + deltaRotation) % 360

\* const newRotation = currentRotation + deltaRotation.  The angles are
\* integers far below 2^53, so the double sum is the integer sum.
NewRotation(currentRotation, deltaRotation) == currentRotation + deltaRotation

\* Mutant of RotateToDirection: the command turns both halves of the pair.
RotateBothHalves(at, side, deltaRotation) ==
    /\ at \in 1..Len(splitImages)
    /\ Len(cmdLog) < MaxTurns
    /\ LET image == splitImages[at] IN
       /\ WritePair(at, [image EXCEPT
               !.leftRotation = NewRotation(image.leftRotation, deltaRotation),
               !.rightRotation = NewRotation(image.rightRotation, deltaRotation)])
       /\ cmdLog' = Append(cmdLog, [id |-> image.id, side |-> side,
                                    d |-> deltaRotation])
    /\ UNCHANGED <<importVars, isDownloading, downloadProgress,
                   shouldStopDownload, dlPc, dlI, exported, saved, dlStart,
                   dlCancelled, noopExport, selChanged, regChanged, call, ret,
                   viewVars>>

\* @rotate="rotateToDirection": lines 243-259 (FrameView emits its own
\* index, so the pair exists).  The number of commands is capped.
RotateToDirection(at, side, deltaRotation) ==
    /\ at \in 1..Len(splitImages)
    /\ Len(cmdLog) < MaxTurns
    /\ LET image == splitImages[at]
           currentRotation == IF side = "left" THEN image.leftRotation
                              ELSE image.rightRotation
           newRotation == NewRotation(currentRotation, deltaRotation)
       IN /\ IF side = "left"
             THEN WritePair(at, [image EXCEPT !.leftRotation = newRotation])
             ELSE WritePair(at, [image EXCEPT !.rightRotation = newRotation])
          /\ cmdLog' = Append(cmdLog, [id |-> image.id, side |-> side,
                                       d |-> deltaRotation])
    /\ UNCHANGED <<importVars, isDownloading, downloadProgress,
                   shouldStopDownload, dlPc, dlI, exported, saved, dlStart,
                   dlCancelled, noopExport, selChanged, regChanged, call, ret,
                   viewVars>>

\* ------------------------------------------------------- download one half
\* a % b of JavaScript for b > 0: the remainder has the sign of a.
JsRem(a, b) == IF a >= 0 THEN a % b ELSE -((-a) % b)

\* Mutant of NormalizedRotation: one remainder only.
NormalizedOnce(rotation) == JsRem(rotation, 360)

\* const normalizedRotation = ((rotation % 360) + 360) % 360
NormalizedRotation(rotation) == JsRem(JsRem(rotation, 360) + 360, 360)

\* Mutant of ExportCanvas: the canvas always takes the image's own size.
ExportCanvasUnswapped(imgWidth, imgHeight, normalizedRotation) ==
    [width |-> imgWidth, height |-> imgHeight]

\* Lines 284-290: the size of the export canvas.
ExportCanvas(imgWidth, imgHeight, normalizedRotation) ==
    IF normalizedRotation = 90 \/ normalizedRotation = 270
    THEN [width |-> imgHeight, height |-> imgWidth]
    ELSE [width |-> imgWidth, height |-> imgHeight]

\* Start positions of the matches of /\.[^/.]+$/ in fileName: a dot, then
\* one or more characters that are neither a slash nor a dot, up to the end.
ExtensionMatches(fileName) ==
    {p \in 1..Len(fileName) :
        /\ fileName[p] = "."
        /\ p < Len(fileName)
        /\ \A q \in (p + 1)..Len(fileName) : fileName[q] \notin {"/", "."}}

\* Mutant of StripExtension: everything from the first dot on is removed.
StripFromFirstDot(fileName) ==
    LET dots == {p \in 1..Len(fileName) : fileName[p] = "."} IN
    IF dots = {} THEN fileName
    ELSE SubSeq(fileName, 1, (CHOOSE p \in dots : \A q \in dots : p <= q) - 1)

\* fileName.replace(/\.[^/.]+$/, ''): the leftmost match is removed.
StripExtension(fileName) ==
    LET m == ExtensionMatches(fileName) IN
    IF m = {} THEN fileName
    ELSE SubSeq(fileName, 1, (CHOOSE p \in m : \A q \in m : p <= q) - 1)

SideLabel(side) == IF side = "left" THEN <<"l", "e", "f", "t">>
                   ELSE <<"r", "i", "g", "h", "t">>

\* a.download = `${fileName.replace(/\.[^/.]+$/, '')}_${sideLabel}.jpg`
DownloadName(fileName, side) ==
    StripExtension(fileName) \o <<"_">> \o SideLabel(side) \o <<".", "j", "p", "g">>

\* img.onload of downloadHalf, lines 275-315, and the toBlob callback.  ok
\* is false when getContext or toBlob gives null: nothing is saved.
DownloadHalf(imageData, rotation, fileName, side, ok) ==
    LET normalizedRotation == NormalizedRotation(rotation)
        canvas == ExportCanvas(imageData.canvas.width, imageData.canvas.height,
                               normalizedRotation)
    IN IF ~ok THEN [kind |-> "nothing"]
       ELSE [kind |-> "file", type |-> "image/jpeg",
             download |-> DownloadName(fileName, side),
             width |-> canvas.width, height |-> canvas.height,
             normalizedRotation |-> normalizedRotation,
             rotate |-> rotation]

\* Everything but the per-half download and the command log.
progVars == <<splitImages, importVars, exportVars, selChanged, regChanged>>

\* @download of FrameView: lines 500-507 and downloadHalf up to img.src.
ClickDownload(at, side) ==
    /\ at \in 1..Len(splitImages)
    /\ LET imagePair == splitImages[at] IN
       call' = [fn |-> "downloadHalf",
                imageData |-> IF side = "left" THEN imagePair.leftHalfOriginal
                              ELSE imagePair.rightHalfOriginal,
                rotation |-> IF side = "left" THEN imagePair.leftRotation
                             ELSE imagePair.rightRotation,
                fileName |-> imagePair.originalName,
                sideLabel |-> side]
    /\ ret' = NoRet
    /\ UNCHANGED <<progVars, cmdLog, viewVars>>

\* The image of the pending downloadHalf call has loaded.
HalfOnload ==
    /\ call.fn = "downloadHalf"
    /\ ret = NoRet
    /\ \E ok \in EncodeOutcomes :
           ret' = DownloadHalf(call.imageData, call.rotation, call.fileName,
                               call.sideLabel, ok)
    /\ UNCHANGED <<progVars, cmdLog, call, viewVars>>

\* The image of the pending splitImageInHalf call has loaded.
SplitOnload ==
    /\ call.fn = "splitImageInHalf"
    /\ ret = NoRet
    /\ ret' = [kind |-> "pair",
               pair |-> SplitImageInHalf(call.width, call.height, call.fileName)]
    /\ UNCHANGED <<progVars, cmdLog, call, viewVars>>

\* ------------------------------------------------------ fullscreen viewer
\* What FrameView's own handlers leave alone: the state of App.
appVars == <<progVars, cmdLog, call, ret>>

Abs(n) == IF n < 0 THEN -n ELSE n

Largest(a, b) == IF a > b THEN a ELSE b

RECURSIVE Gcd(_, _)
Gcd(a, b) == IF b = 0 THEN a ELSE Gcd(b, a % b)

\* The number n / d, d > 0, in lowest terms.
Fraction(n, d) ==
    LET g == Gcd(Abs(n), d) IN [num |-> n \div g, den |-> d \div g]

\* Mutant of ToggleFullscreen: the viewer changes side and keeps its zoom
\* and pan.
ToggleFullscreenKeepsZoom(side) ==
    /\ fullscreenSide' = IF fullscreenSide = side THEN Null ELSE side
    /\ offCentre' = 0
    /\ UNCHANGED <<zoomLevel, panX, panY, appVars>>

\* toggleFullscreen: lines 35-47.  Both branches write the same zoom and
\* pan.
ToggleFullscreen(side) ==
    /\ IF fullscreenSide = side
       THEN /\ fullscreenSide' = Null
            /\ zoomLevel' = 10
            /\ panX' = Whole(0)
            /\ panY' = Whole(0)
       ELSE /\ fullscreenSide' = side
            /\ zoomLevel' = 10
            /\ panX' = Whole(0)
            /\ panY' = Whole(0)
    /\ offCentre' = 0
    /\ UNCHANGED appVars

\* Keys of the keydown events.
Keys == {"Escape", "Enter"}

\* handleEscape: lines 65-72.
HandleEscape(key) ==
    /\ IF key = "Escape" /\ fullscreenSide # Null
       THEN /\ fullscreenSide' = Null
            /\ zoomLevel' = 10
            /\ panX' = Whole(0)
            /\ panY' = Whole(0)
            /\ offCentre' = 0
       ELSE UNCHANGED viewVars
    /\ UNCHANGED appVars

\* event.deltaY of the wheel events: up, none (a sideways scroll), down.
DeltaYs == {-1, 0, 1}

\* The pointer relative to the centre of the viewport (lines 83-84): at the
\* centre, and away from it.
Pointers == {<<0, 0>>, <<3, -2>>}

\* Lines 78-79: delta is -0.1 or 0.1, and the sum is clamped to [0.5, 5].
NewZoom(deltaY) ==
    LET delta == IF deltaY > 0 THEN -1 ELSE 1
    IN  Largest(5, Min(50, zoomLevel + delta))

\* Lines 87-92: mouse + (pan - mouse) * zoomFactor, where zoomFactor is
\* newZoom / zoomLevel.
PanTowards(pan, mouse, newZoom) ==
    Fraction(mouse * pan.den * zoomLevel + (pan.num - mouse * pan.den) * newZoom,
             pan.den * zoomLevel)

\* handleWheel: lines 74-97.
HandleWheel(deltaY, mouseX, mouseY) ==
    /\ (<<mouseX, mouseY>> # <<0, 0>>) => offCentre < MaxOffCentre
    /\ IF fullscreenSide # Null
       THEN LET newZoom == NewZoom(deltaY) IN
            IF newZoom # zoomLevel
            THEN /\ panX' = PanTowards(panX, mouseX, newZoom)
                 /\ panY' = PanTowards(panY, mouseY, newZoom)
                 /\ zoomLevel' = newZoom
                 /\ offCentre' = IF <<mouseX, mouseY>> # <<0, 0>>
                                 THEN offCentre + 1 ELSE offCentre
                 /\ UNCHANGED fullscreenSide
            ELSE UNCHANGED viewVars
       ELSE UNCHANGED viewVars
    /\ UNCHANGED appVars

\* ---------------------------------------------------------- specifications
ImportStep ==
    \/ \E sel \in Selections : HandleFileSelect(sel)
    \/ \E k \in 1..MaxFiles : DecodeSettle(k)
    \/ PauseDone
    \/ ImportHoldDone
    \/ StopImport

RegistryStep ==
    \/ \E at \in 1..MaxFiles : RemoveImagePair(at)
    \/ ClearAll

SelectionStep ==
    \E at \in 1..MaxFiles, side \in Sides : ToggleCheck(at, side)

SelectAllStep == SelectAllClick

ExportStep ==
    \/ DownloadChecked
    \/ AfterLeftDone
    \/ AfterRightDone
    \/ DownloadHoldDone
    \/ StopDownload

\* The import controller and the registry's structure operations.
NextImport == ImportStep \/ RegistryStep

SpecImport == Init /\ [][NextImport]_vars

\* The state after one import of n good files has returned to Idle.
InitLoaded ==
    \E n \in 1..MaxPairs :
        /\ splitImages = [k \in 1..n |-> NewPair(File(k, TRUE))]
        /\ importProgress = [current |-> n, total |-> n]
        /\ nextId = n + 1
        /\ isImporting = FALSE
        /\ shouldStopImport = FALSE
        /\ isDownloading = FALSE
        /\ downloadProgress = [current |-> 0, total |-> 0]
        /\ shouldStopDownload = FALSE
        /\ impPc = "idle"
        /\ fileArray = <<>>
        /\ impI = 0
        /\ settled = <<>>
        /\ dlPc = "idle"
        /\ dlI = 0
        /\ dlImg = NoPair
        /\ appended = <<>>
        /\ stopAt = -1
        /\ exported = <<>>
        /\ saved = FALSE
        /\ dlStart = <<>>
        /\ dlCancelled = FALSE
        /\ selChanged = FALSE
        /\ regChanged = FALSE
        /\ noopExport = FALSE
        /\ lastSel = <<>>
        /\ cmdLog = <<>>
        /\ call = NoCall
        /\ ret = NoRet
        /\ FrameViewSetup

\* The export controller on a loaded registry, with selection and removal.
NextExport == ExportStep \/ SelectionStep \/ RegistryStep

SpecExport == InitLoaded /\ [][NextExport]_vars

\* Timers fire: every pending setTimeout of downloadChecked is run.
ExportFairness ==
    /\ WF_vars(AfterLeftDone)
    /\ WF_vars(AfterRightDone)
    /\ WF_vars(DownloadHoldDone)

FairSpecExport == SpecExport /\ ExportFairness

RotateStep ==
    \E at \in 1..MaxFiles, side \in Sides, d \in Deltas :
        RotateToDirection(at, side, d)

HalfStep ==
    \/ \E at \in 1..MaxFiles, side \in Sides : ClickDownload(at, side)
    \/ HalfOnload

\* The controllers at rest, the registry holding the given pairs.
AtRest(pairs) ==
    /\ splitImages = pairs
    /\ importProgress = [current |-> Len(pairs), total |-> Len(pairs)]
    /\ nextId = MaxFiles + 1
    /\ isImporting = FALSE
    /\ shouldStopImport = FALSE
    /\ isDownloading = FALSE
    /\ downloadProgress = [current |-> 0, total |-> 0]
    /\ shouldStopDownload = FALSE
    /\ impPc = "idle"
    /\ fileArray = <<>>
    /\ impI = 0
    /\ settled = <<>>
    /\ dlPc = "idle"
    /\ dlI = 0
    /\ dlImg = NoPair
    /\ appended = <<>>
    /\ stopAt = -1
    /\ exported = <<>>
    /\ saved = FALSE
    /\ dlStart = <<>>
    /\ dlCancelled = FALSE
    /\ selChanged = FALSE
    /\ regChanged = FALSE
    /\ noopExport = FALSE
    /\ lastSel = <<>>
    /\ cmdLog = <<>>

\* One pair in the registry, split from any of the sample files.
InitOnePair ==
    /\ \E id \in 1..MaxSample : AtRest(<<NewPair(File(id, TRUE))>>)
    /\ call = NoCall
    /\ ret = NoRet
    /\ FrameViewSetup

\* Rotation and the per-half download on one pair.
NextRotate == RotateStep \/ HalfStep

SpecRotate == InitOnePair /\ [][NextRotate]_vars

\* The two image callbacks as functions of their arguments.
Angles == (0 - MaxAngle)..MaxAngle
Sizes == 1..MaxDim
Chars == {"a", "."}
Names == UNION {[1..n -> Chars] : n \in 1..MaxName}
           \cup {FileName(id) : id \in 1..2}
Picture(width, height) == ToDataURL(Drawn(2 * width, 2 * height, 0, 0), "image/png")

Calls ==
    {[fn |-> "downloadHalf", imageData |-> Picture(3, 2), rotation |-> r,
      fileName |-> FileName(1), sideLabel |-> "left"] : r \in Angles}
    \cup
    {[fn |-> "downloadHalf", imageData |-> Picture(3, 2), rotation |-> 0,
      fileName |-> n, sideLabel |-> s] : n \in Names, s \in Sides}
    \cup
    {[fn |-> "splitImageInHalf", width |-> w, height |-> h,
      fileName |-> FileName(1)] : w \in Sizes, h \in Sizes}

InitCall ==
    /\ AtRest(<<>>)
    /\ call \in Calls
    /\ ret = NoRet
    /\ FrameViewSetup

NextCall == HalfOnload \/ SplitOnload

SpecCall == InitCall /\ [][NextCall]_vars

\* Rotation, selection and removal on a loaded registry, no batch running.
EditRotateStep == Len(cmdLog) < MaxEditTurns /\ RotateStep

NextEdit == EditRotateStep \/ SelectionStep \/ RegistryStep

SpecEdit == InitLoaded /\ [][NextEdit]_vars

\* One imported pair with both halves selected, nothing running: the state
\* after an import of one good file and two toggles.
InitSelected ==
    /\ splitImages = <<[NewPair(File(1, TRUE)) EXCEPT !.leftChecked = TRUE,
                                                      !.rightChecked = TRUE]>>
    /\ importProgress = [current |-> 1, total |-> 1]
    /\ nextId = 2
    /\ isImporting = FALSE
    /\ shouldStopImport = FALSE
    /\ isDownloading = FALSE
    /\ downloadProgress = [current |-> 0, total |-> 0]
    /\ shouldStopDownload = FALSE
    /\ impPc = "idle"
    /\ fileArray = <<>>
    /\ impI = 0
    /\ settled = <<>>
    /\ dlPc = "idle"
    /\ dlI = 0
    /\ dlImg = NoPair
    /\ appended = <<>>
    /\ stopAt = -1
    /\ exported = <<>>
    /\ saved = FALSE
    /\ dlStart = <<>>
    /\ dlCancelled = FALSE
    /\ selChanged = FALSE
    /\ regChanged = FALSE
    /\ noopExport = FALSE
    /\ lastSel = <<>>
    /\ cmdLog = <<>>
    /\ call = NoCall
    /\ ret = NoRet
    /\ FrameViewSetup

\* Selections of files that all have an image type.
ImageSelections == UNION {[1..n -> FileKinds \ {"other"}] : n \in 1..MaxFiles}

ImportImagesStep ==
    \/ \E sel \in ImageSelections : HandleFileSelect(sel)
    \/ \E k \in 1..MaxFiles : DecodeSettle(k)
    \/ PauseDone
    \/ ImportHoldDone
    \/ StopImport

\* The two batch controllers side by side, and the registry's structure
\* operations.
NextBoth == ImportImagesStep \/ ExportStep \/ RegistryStep

SpecBoth == InitSelected /\ [][NextBoth]_vars

\* A loaded registry at rest after earlier imports and removals, with room
\* for one more file.
InitSelect ==
    \E n \in 1..MaxPairs :
        /\ splitImages = [k \in 1..n |-> NewPair(File(k, TRUE))]
        /\ importProgress = [current |-> MaxFiles - 1, total |-> MaxFiles - 1]
        /\ nextId = MaxFiles
        /\ isImporting = FALSE
        /\ shouldStopImport = FALSE
        /\ isDownloading = FALSE
        /\ downloadProgress = [current |-> 0, total |-> 0]
        /\ shouldStopDownload = FALSE
        /\ impPc = "idle"
        /\ fileArray = <<>>
        /\ impI = 0
        /\ settled = <<>>
        /\ dlPc = "idle"
        /\ dlI = 0
        /\ dlImg = NoPair
        /\ appended = <<>>
        /\ stopAt = -1
        /\ exported = <<>>
        /\ saved = FALSE
        /\ dlStart = <<>>
        /\ dlCancelled = FALSE
        /\ selChanged = FALSE
        /\ regChanged = FALSE
        /\ noopExport = FALSE
        /\ lastSel = <<>>
        /\ cmdLog = <<>>
        /\ call = NoCall
        /\ ret = NoRet
        /\ FrameViewSetup

\* Selections of one file with an image type.
OneImageSelections == {sel \in ImageSelections : Len(sel) = 1}

\* The import of one file: a single group, so no pause between groups.
ImportOneStep ==
    \/ \E sel \in OneImageSelections : HandleFileSelect(sel)
    \/ \E k \in 1..MaxFiles : DecodeSettle(k)
    \/ ImportHoldDone
    \/ StopImport

\* Selection by half and by Select All, with imports and removals.
NextSelect ==
    ImportOneStep \/ SelectionStep \/ SelectAllStep \/ RegistryStep

SpecSelect == InitSelect /\ [][NextSelect]_vars

ViewStep ==
    \/ \E side \in Sides : ToggleFullscreen(side)
    \/ \E key \in Keys : HandleEscape(key)
    \/ \E deltaY \in DeltaYs, mouse \in Pointers :
           HandleWheel(deltaY, mouse[1], mouse[2])

\* One mounted FrameView over a registry of one pair at rest.
InitView ==
    /\ AtRest(<<NewPair(File(1, TRUE))>>)
    /\ call = NoCall
    /\ ret = NoRet
    /\ FrameViewSetup

\* The fullscreen viewer of one FrameView.
NextView == ViewStep

SpecView == InitView /\ [][NextView]_vars

Next ==
    \/ ImportStep \/ RegistryStep \/ SelectionStep \/ SelectAllStep
    \/ ExportStep \/ RotateStep \/ HalfStep \/ ViewStep

Spec == Init /\ [][Next]_vars

\* ------------------------------------------------------------------ import
\* Ids of the files of fa that decode, in selection order.
RECURSIVE OkIds(_)
OkIds(fa) ==
    IF fa = <<>> THEN <<>>
    ELSE (IF Head(fa).ok THEN <<Head(fa).id>> ELSE <<>>) \o OkIds(Tail(fa))

\* handleFileSelect has left its loop: it waits for the 500 ms timer, or it
\* ended on the rejected await.
ImportLoopOver == impPc \in {"hold", "aborted"}

\* C1: a file that fails to read or decode is skipped without aborting the
\* batch: when an uncancelled batch is over, the pairs it appended are
\* exactly those of its files that decode (N - k of N), in selection order.
C1_FailedFileSkipped ==
    (ImportLoopOver /\ stopAt = -1) => appended = OkIds(fileArray)

\* C2: every import batch returns to Idle: whenever handleFileSelect has no
\* continuation left to run (no decode in flight, no timer pending), the
\* controller is Idle, with isImporting and shouldStopImport both false.
C2_ImportReturnsToIdle ==
    impPc \in {"idle", "aborted"} => (~isImporting /\ ~shouldStopImport)

\* Position of the file with this id in the running batch's fileArray, else 0.
PosInBatch(id) ==
    IF \E a \in 1..Len(fileArray) : fileArray[a].id = id
    THEN CHOOSE a \in 1..Len(fileArray) : fileArray[a].id = id
    ELSE 0

\* C3: pairs are appended in file-selection order: of two pairs of the
\* running batch that are in the registry, the one whose file comes first in
\* the filtered selection comes first in splitImages, whatever the settle
\* order inside a group and whichever other pairs were removed meanwhile.
C3_SelectionOrder ==
    \A p, q \in 1..Len(splitImages) :
        (/\ p < q
         /\ PosInBatch(splitImages[p].id) > 0
         /\ PosInBatch(splitImages[q].id) > 0)
        => PosInBatch(splitImages[p].id) < PosInBatch(splitImages[q].id)

\* C3 witness: the second group's later file decoded first, the group was
\* appended, and a pair of the first group was removed in between; both
\* pairs of the second group are in the registry.
C3_Witness ==
    /\ impPc \in {"pause", "hold"}
    /\ Len(appended) = 2 * batchSize
    /\ settled = <<4, 3>>
    /\ Len(splitImages) = 3
    /\ \E p, q \in 1..Len(splitImages) :
         /\ splitImages[p].id = fileArray[3].id
         /\ splitImages[q].id = fileArray[4].id

\* The loop of the running batch was left by the break of line 206.
ImportBroke == impPc = "hold" /\ impI < Len(fileArray)

\* C4 (state part): what a batch has appended is a prefix of its filtered
\* file list made of whole groups, and after the break it is exactly the
\* files before the group that was not started.
C4_WholeGroupPrefix ==
    impPc # "idle" =>
        /\ Len(appended) <= Len(fileArray)
        /\ appended = [k \in 1..Len(appended) |-> fileArray[k].id]
        /\ Len(appended) % batchSize = 0 \/ Len(appended) = Len(fileArray)
        /\ ImportBroke => (shouldStopImport /\ Len(appended) = impI)

\* C4 (step part): once the flag is set and no group is in flight, the batch
\* starts no group and appends nothing, and ending it removes no pair.
C4_CancelStep ==
    (shouldStopImport /\ impPc \in {"pause", "hold"} /\ impPc' # impPc)
    => /\ impPc' \in {"hold", "idle"}
       /\ splitImages' = splitImages
       /\ appended' = appended \/ impPc' = "idle"

\* C4: a cancelled batch has appended exactly a prefix of whole groups of
\* its filtered file list; what it appended stays, and no file of a group
\* not yet started when the flag was checked is appended.
C4_CancelledPrefix == []C4_WholeGroupPrefix /\ [][C4_CancelStep]_vars

\* C4 witness: the batch broke out with one group appended, all of it in the
\* registry, and files left over that were never imported.
C4_Witness ==
    /\ ImportBroke
    /\ Len(appended) = batchSize
    /\ Ids(splitImages) = appended
    /\ Len(fileArray) > batchSize

\* C5: after stopImport at most one further group (at most batchSize files)
\* is appended and counted in importProgress, and once it has been appended
\* no group is in flight any more.
C5_BoundedCancel ==
    stopAt # -1 =>
        /\ Len(appended) <= stopAt + batchSize
        /\ importProgress.current <= stopAt + batchSize
        /\ Len(appended) > stopAt => impPc \in {"pause", "hold"}

\* C5 witness: stop was requested while a group was in flight; that group
\* was appended and counted, the batch broke out, and files are left over.
C5_Witness ==
    /\ ImportBroke
    /\ stopAt # -1
    /\ Len(appended) = stopAt + batchSize
    /\ importProgress.current = stopAt + batchSize

\* ------------------------------------------------------------------ export
Count(x, s) == Cardinality({k \in 1..Len(s) : s[k] = x})

InRegistry(id) == \E p \in 1..Len(splitImages) : splitImages[p].id = id

\* downloadChecked has left its loop without a break.
ExportRanToEnd == dlPc = "hold" /\ ~dlCancelled

\* C6: an export during which pairs are removed (and nothing else changes)
\* skips and duplicates nothing: when it is over, every half selected at its
\* start whose pair is still in the registry was exported exactly once, and
\* no half was exported twice.
C6_NoSkipNoDuplicate ==
    (ExportRanToEnd /\ ~selChanged) =>
        /\ \A k \in 1..Len(dlStart) :
             InRegistry(dlStart[k].id) => Count(dlStart[k], exported) = 1
        /\ \A k \in 1..Len(exported) : Count(exported[k], exported) = 1

\* No cancellation, no registry change and no selection change since the
\* running export started.
ExportUndisturbed == ~dlCancelled /\ ~shouldStopDownload /\ ~selChanged /\ ~regChanged

\* C7: an undisturbed export exports exactly the halves selected at its
\* start, pairs in registry order and left before right; current counts the
\* exports one by one and ends equal to total.
C7_ExportsSelection ==
    dlPc # "idle" =>
        /\ downloadProgress.current = Len(exported)
        /\ downloadProgress.total = Len(dlStart)
        /\ ExportUndisturbed =>
             /\ Len(exported) <= Len(dlStart)
             /\ exported = SubSeq(dlStart, 1, Len(exported))
             /\ dlPc = "hold" =>
                  (exported = dlStart
                   /\ downloadProgress.current = downloadProgress.total)

\* C7 witness: an undisturbed export of three of the four halves of two
\* pairs is over.
C7_Witness ==
    /\ dlPc = "hold"
    /\ ExportUndisturbed
    /\ Len(splitImages) = 2
    /\ Len(exported) = 3
    /\ downloadProgress = [current |-> 3, total |-> 3]

\* C8 (step): while the stop flag is set no step exports a half or moves
\* current, and the exports made so far stay until the batch returns to Idle.
C8_StopStep ==
    (shouldStopDownload /\ dlPc # "idle") =>
        /\ downloadProgress' = downloadProgress
        /\ exported' = exported \/ dlPc' = "idle"

\* C8: once stopDownload has been called no further half is exported by the
\* batch, the right half of the pair just exported included; current stops
\* at the number of exports made, and none is undone.
C8_NoExportAfterStop == [][C8_StopStep]_vars

\* C8 witness: the batch broke out right after a left half whose pair's right
\* half is selected too, with fewer exports than total.
C8_Witness ==
    /\ dlPc = "hold"
    /\ dlCancelled
    /\ shouldStopDownload
    /\ Len(exported) = 1
    /\ exported[1].side = "left"
    /\ \E p \in 1..Len(splitImages) :
         splitImages[p].id = exported[1].id /\ splitImages[p].rightChecked
    /\ downloadProgress.current = 1
    /\ downloadProgress.total > 1

ExportIdle == ~isDownloading /\ ~shouldStopDownload /\ dlPc = "idle"

\* C9: every export batch that is Running returns to Idle with isDownloading
\* and shouldStopDownload false, whatever becomes of the encodes.
C9_ExportReturnsToIdle == isDownloading ~> ExportIdle

\* C9 witness: every encode of the batch failed, and the controller still
\* went on to the next selected half and reached the end of its loop.
C9_Witness ==
    /\ ExportRanToEnd
    /\ ~saved
    /\ Len(exported) >= 2
    /\ exported = dlStart

\* C10 (step): with no export running and no half selected, no step starts an
\* export or writes the export state, and a downloadChecked call leaves the
\* registry as it is.
C10_NoopStep ==
    (~isDownloading /\ CheckedCount(splitImages) = 0) =>
        /\ UNCHANGED <<isDownloading, downloadProgress, shouldStopDownload,
                       dlPc, exported>>
        /\ noopExport' # noopExport => (noopExport' /\ splitImages' = splitImages)

\* C10: downloadChecked with no half selected is a no-op.
C10_NoSelectionNoop == [][C10_NoopStep]_vars

\* C10 witness: downloadChecked returned at once after an earlier batch had
\* run, and that batch's progress record is still there.
C10_Witness ==
    /\ noopExport
    /\ ~isDownloading
    /\ CheckedCount(splitImages) = 0
    /\ Len(splitImages) > 0
    /\ downloadProgress.total > 0

\* -------------------------------------------------- claims: import progress
\* The number of files of a selection whose type starts with image/.
ImageCount(sel) == Cardinality({k \in DOMAIN sel : sel[k] # "other"})

\* The position in sel of its j-th file whose type starts with image/.
NthImage(sel, j) ==
    CHOOSE k \in DOMAIN sel :
        /\ sel[k] # "other"
        /\ Cardinality({m \in 1..k : sel[m] # "other"}) = j

C11_BatchIsImages ==
    impPc # "idle" =>
        /\ Len(fileArray) = ImageCount(lastSel)
        /\ importProgress.total = ImageCount(lastSel)
        /\ \A j \in 1..Len(fileArray) :
               fileArray[j].ok = (lastSel[NthImage(lastSel, j)] = "image")
        /\ (impPc = "decoding" /\ impI = 0) => importProgress.current = 0

C11_NoBatchStep ==
    (impPc = "idle" /\ lastSel' # lastSel /\ ImageCount(lastSel') = 0) =>
        UNCHANGED <<isImporting, importProgress, splitImages, impPc, fileArray>>

\* C11: a batch holds exactly the selected files whose type starts with
\* image/, in selection order, and starts with importProgress =
\* {0, their number}; a selection without such a file starts no batch and
\* leaves isImporting, importProgress and the registry as they were.
C11_ImportFilter == []C11_BatchIsImages /\ [][C11_NoBatchStep]_vars

\* A batch just started from a selection that mixes the three kinds.
C11_Witness ==
    /\ impPc = "decoding"
    /\ lastSel = <<"other", "image", "corrupt">>
    /\ importProgress = [current |-> 0, total |-> 2]
    /\ Len(fileArray) = 2

\* Groups of the running batch whose files have all been processed, a file
\* that failed to decode counting as processed.
GroupsProcessed ==
    CASE impPc = "decoding" -> impI \div batchSize
      [] impPc = "pause" -> impI \div batchSize + 1
      [] impPc = "aborted" -> impI \div batchSize + 1
      [] OTHER -> (Len(fileArray) + batchSize - 1) \div batchSize

C12_Counts ==
    /\ 0 <= importProgress.current
    /\ importProgress.current <= importProgress.total
    /\ impPc # "idle" => importProgress.total = Len(fileArray)
    /\ (impPc \in {"decoding", "pause", "aborted"} \/ (impPc = "hold" /\ ~ImportBroke)) =>
           importProgress.current =
               Min(batchSize * GroupsProcessed, importProgress.total)
    /\ (ImportLoopOver /\ stopAt = -1) =>
           importProgress.current = importProgress.total

C12_NeverBack ==
    (impPc # "idle" /\ impPc' # "idle") =>
        importProgress'.current >= importProgress.current

\* C12: during a batch total stays the number of image files captured at
\* its start; after each group current = min(2 * groups processed, total),
\* a file that failed to decode counting as processed; 0 <= current <= total
\* always; current never decreases within a batch; a batch that was not
\* cancelled ends with current = total.
C12_ProgressCounts == []C12_Counts /\ [][C12_NeverBack]_vars

\* ------------------------------------------------------- claims: rotation
\* The stored angle of a half of the pair with the given id.
StoredRotation(pairs, id, side) ==
    LET p == pairs[CHOOSE k \in 1..Len(pairs) : pairs[k].id = id] IN
    IF side = "left" THEN p.leftRotation ELSE p.rightRotation

\* The integer sum of the deltas of the commands of log sent to a half.
RECURSIVE DeltaSum(_, _, _)
DeltaSum(log, id, side) ==
    IF log = <<>> THEN 0
    ELSE (IF Head(log).id = id /\ Head(log).side = side THEN Head(log).d ELSE 0)
         + DeltaSum(Tail(log), id, side)

Halves == {<<Ids(splitImages)[k], side>> : k \in 1..Len(splitImages), side \in Sides}

C13_Sum ==
    \A h \in Halves :
        StoredRotation(splitImages, h[1], h[2]) = DeltaSum(cmdLog, h[1], h[2])

C13_Step ==
    cmdLog' # cmdLog =>
        LET c == cmdLog'[Len(cmdLog')] IN
        StoredRotation(splitImages', c.id, c.side) =
            StoredRotation(splitImages, c.id, c.side) + c.d

\* C13: rotateToDirection(i, side, d) sets the stored angle of that half to
\* exactly its previous value plus d, and no modulo is applied: after any
\* sequence of commands the stored angle is the plain integer sum of the
\* deltas, inside [0, 360) or not.
C13_PlainSum == []C13_Sum /\ [][C13_Step]_vars

\* Both halves of a pair outside [0, 360): one above, one below.
C13_Witness ==
    /\ Len(splitImages) = 1
    /\ splitImages[1].leftRotation = 450
    /\ splitImages[1].rightRotation = -90

\* C15: the normalized angle of a half depends only on the sum of its
\* deltas modulo 360, whatever the commands and their order; four +90
\* commands bring it back to where it started.
C15_SumModulo360 ==
    \A h \in Halves :
        NormalizedRotation(StoredRotation(splitImages, h[1], h[2])) =
            DeltaSum(cmdLog, h[1], h[2]) % 360

\* Four +90 commands on the left half: stored 360, normalized 0 again.
C15_Witness ==
    /\ Len(splitImages) = 1
    /\ cmdLog = [k \in 1..4 |-> [id |-> splitImages[1].id, side |-> "left", d |-> 90]]
    /\ splitImages[1].leftRotation = 360
    /\ NormalizedRotation(splitImages[1].leftRotation) = NormalizedRotation(0)

\* C16: the export canvas of a half of size w x h is h x w when the angle
\* passed is 90 or 270 modulo 360 and w x h when it is 0 or 180 modulo 360,
\* for every stored angle, negative and above 360 included.
C16_CanvasSwap ==
    (call.fn = "downloadHalf" /\ ret.kind = "file") =>
        LET w == call.imageData.canvas.width
            h == call.imageData.canvas.height
            n == call.rotation % 360
        IN /\ n \in {0, 90, 180, 270}
           /\ n \in {90, 270} => (ret.width = h /\ ret.height = w)
           /\ n \in {0, 180} => (ret.width = w /\ ret.height = h)

\* A half that is not square, exported at 450 degrees, comes out swapped.
C16_Witness ==
    /\ call.fn = "downloadHalf"
    /\ ret.kind = "file"
    /\ call.rotation = 450
    /\ call.imageData.canvas.width # call.imageData.canvas.height
    /\ ret.width = call.imageData.canvas.height
    /\ ret.height = call.imageData.canvas.width

\* ---------------------------------------------- claims: export of one half
\* a and b differ by a multiple of 360.
Congruent(a, b) == (a - b) % 360 = 0

\* C14: ((r % 360) + 360) % 360 maps every integer r to the one n in
\* [0, 360) congruent to r modulo 360, and normalizing n again gives n.
C14_Normalization ==
    (call.fn = "downloadHalf" /\ ret.kind = "file") =>
        LET r == call.rotation
            n == ret.normalizedRotation
        IN /\ n \in 0..359
           /\ Congruent(r, n)
           /\ \A m \in 0..359 : Congruent(r, m) => m = n
           /\ NormalizedRotation(n) = n

\* A negative angle that is not a multiple of 90, normalized.
C14_Witness ==
    /\ call.fn = "downloadHalf"
    /\ call.rotation = -451
    /\ ret.kind = "file"
    /\ ret.normalizedRotation = 269

\* The file name without its last dot and what follows it, when something
\* follows it; the whole name when it has no dot or ends in one.
BaseName(name) ==
    LET dots == {p \in 1..Len(name) : name[p] = "."} IN
    IF dots = {} THEN name
    ELSE LET last == CHOOSE p \in dots : \A q \in dots : q <= p IN
         IF last = Len(name) THEN name ELSE SubSeq(name, 1, last - 1)

LeftCanvas == ret.pair.leftHalfOriginal.canvas
RightCanvas == ret.pair.rightHalfOriginal.canvas

\* C18: the image is cut along its vertical midline exactly when it is
\* wider than tall; otherwise, a square included, it is cut along its
\* horizontal midline, the top half stored as left, the bottom as right.
C18_SplitAxis ==
    (call.fn = "splitImageInHalf" /\ ret.kind = "pair") =>
        /\ LeftCanvas.sx2 = 0 /\ LeftCanvas.sy2 = 0
        /\ call.width > call.height =>
               /\ RightCanvas.sx2 > 0 /\ RightCanvas.sy2 = 0
               /\ LeftCanvas.height = call.height
               /\ RightCanvas.height = call.height
        /\ call.width <= call.height =>
               /\ RightCanvas.sy2 > 0 /\ RightCanvas.sx2 = 0
               /\ LeftCanvas.width = call.width
               /\ RightCanvas.width = call.width
        /\ ret.pair.leftHalf.canvas = LeftCanvas
        /\ ret.pair.rightHalf.canvas = RightCanvas

\* A square image, cut into a top and a bottom half.
C18_Witness ==
    /\ call.fn = "splitImageInHalf"
    /\ call.width = 4 /\ call.height = 4
    /\ ret.kind = "pair"
    /\ RightCanvas = [width |-> 4, height |-> 2, sx2 |-> 0, sy2 |-> 4]

\* C19: the half boundary is floor(dimension / 2): a vertical cut takes
\* columns [0, floor(w/2)) and [floor(w/2), 2 * floor(w/2)), a horizontal
\* cut the rows alike, so that an odd dimension leaves exactly its last
\* column or row out and no pixel is in both halves.
C19_FloorBoundary ==
    (call.fn = "splitImageInHalf" /\ ret.kind = "pair") =>
        LET w == call.width
            h == call.height
        IN IF w > h
           THEN /\ LeftCanvas.width = w \div 2 /\ RightCanvas.width = w \div 2
                /\ LeftCanvas.sx2 = 0
                /\ RightCanvas.sx2 = 2 * (w \div 2)
           ELSE /\ LeftCanvas.height = h \div 2 /\ RightCanvas.height = h \div 2
                /\ LeftCanvas.sy2 = 0
                /\ RightCanvas.sy2 = 2 * (h \div 2)

\* ---------------------------------------------------- claims: a new pair
C20_AppendStep ==
    \A k \in 1..Len(splitImages') :
        LET p == splitImages'[k] IN
        ~InSeq(p.id, Ids(splitImages)) =>
            /\ p.leftHalf.type = "image/jpeg" /\ p.rightHalf.type = "image/jpeg"
            /\ p.leftHalfOriginal.type = "image/png"
            /\ p.rightHalfOriginal.type = "image/png"
            /\ p.leftHalf.canvas = p.leftHalfOriginal.canvas
            /\ p.rightHalf.canvas = p.rightHalfOriginal.canvas
            /\ p.leftHalf.canvas # p.rightHalf.canvas
            /\ p.originalName = FileName(p.id)
            /\ p.leftRotation = 0 /\ p.rightRotation = 0
            /\ ~p.leftChecked /\ ~p.rightChecked

\* C20: every pair enters the registry complete and in its initial state:
\* both previews, both lossless originals, the file's name, both rotations
\* 0 and both halves unselected, whatever the split axis.
C20_NewPairInitial == [][C20_AppendStep]_vars

\* A pair cut left/right and a pair cut top/bottom, both in the registry.
C20_Witness ==
    /\ Len(splitImages) >= 2
    /\ splitImages[1].rightHalfOriginal.canvas.sx2 > 0
    /\ splitImages[2].rightHalfOriginal.canvas.sy2 > 0
    /\ splitImages[2].leftRotation = 0 /\ ~splitImages[2].rightChecked

\* ------------------------------------------------- claims: registry edits
\* What the user set on a pair: its two flags and its two angles.
Settings(p) == <<p.leftChecked, p.rightChecked, p.leftRotation, p.rightRotation>>

\* The index after the removal of index at of the pair that was at index i.
IndexAfter(i, at) == IF i < at THEN i ELSE i - 1

C21_RemoveStep ==
    \A at \in 1..Len(splitImages) :
        RemoveImagePair(at) =>
            \A i \in 1..Len(splitImages) :
                i # at =>
                    /\ IndexAfter(i, at) \in 1..Len(splitImages')
                    /\ splitImages'[IndexAfter(i, at)].id = splitImages[i].id
                    /\ Settings(splitImages'[IndexAfter(i, at)]) =
                           Settings(splitImages[i])

\* C21: removing pair j leaves the selection flags and the stored angles of
\* every other pair as they were; the pair that was at index i is then at
\* index i or i - 1.
C21_RemovalKeepsOthers == [][C21_RemoveStep]_vars

\* Pair 2 had a half selected and a half turned, then pair 1 was removed.
C21_Witness ==
    /\ Len(splitImages) = 1
    /\ splitImages[1].id = 2
    /\ splitImages[1].leftChecked
    /\ splitImages[1].rightRotation = 90
    /\ Len(cmdLog) = 1

\* The registry with the angle of one half of the pair with the given id
\* replaced.
WithRotation(pairs, id, side, angle) ==
    [k \in 1..Len(pairs) |->
        IF pairs[k].id # id THEN pairs[k]
        ELSE IF side = "left" THEN [pairs[k] EXCEPT !.leftRotation = angle]
        ELSE [pairs[k] EXCEPT !.rightRotation = angle]]

C22_RotateStep ==
    cmdLog' # cmdLog =>
        LET c == cmdLog'[Len(cmdLog')] IN
        /\ splitImages' = WithRotation(splitImages, c.id, c.side,
                              StoredRotation(splitImages', c.id, c.side))
        /\ UNCHANGED <<isImporting, importProgress, shouldStopImport,
                       isDownloading, downloadProgress, shouldStopDownload>>

\* C22: a rotation command changes the angle of the addressed half only:
\* the other half's angle, both flags, every other pair, the registry's
\* length and order and the batch progress state stay as they were.
C22_RotationPerHalf == [][C22_RotateStep]_vars

\* One half of the second of two pairs turned, the other three halves
\* untouched.
C22_Witness ==
    /\ Len(splitImages) = 2
    /\ Len(cmdLog) = 1
    /\ splitImages[1].leftRotation = 0 /\ splitImages[1].rightRotation = 0
    /\ splitImages[2].leftRotation = 0 /\ splitImages[2].rightRotation = 180

\* The registry with one flag of the pair at index at inverted.
Flip(pairs, at, side) ==
    [k \in 1..Len(pairs) |->
        IF k # at THEN pairs[k]
        ELSE IF side = "left"
        THEN [pairs[k] EXCEPT !.leftChecked = ~pairs[k].leftChecked]
        ELSE [pairs[k] EXCEPT !.rightChecked = ~pairs[k].rightChecked]]

C23_ToggleStep ==
    \A at \in 1..Len(splitImages), side \in Sides :
        ToggleCheck(at, side) =>
            /\ splitImages' = Flip(splitImages, at, side)
            /\ splitImages' # splitImages
            /\ Flip(splitImages', at, side) = splitImages

\* C23: toggleCheck(i, side) inverts the addressed flag and nothing else in
\* the registry, so that a second toggle of the same half brings the
\* registry back.
C23_SelectionPerHalf == [][C23_ToggleStep]_vars

\* One half selected in each of two pairs, one of them turned before.
C23_Witness ==
    /\ Len(splitImages) = 2
    /\ splitImages[1].leftChecked /\ ~splitImages[1].rightChecked
    /\ ~splitImages[2].leftChecked /\ splitImages[2].rightChecked
    /\ splitImages[2].rightRotation = 90

C24_RemoveStep ==
    \A at \in 1..Len(splitImages) :
        RemoveImagePair(at) =>
            /\ Len(splitImages') = Len(splitImages) - 1
            /\ \A k \in 1..Len(splitImages') :
                   splitImages'[k] = splitImages[IF k < at THEN k ELSE k + 1]

C24_ClearStep == ClearAll => splitImages' = <<>>

C24_Frame ==
    Len(splitImages') < Len(splitImages) =>
        UNCHANGED <<isImporting, importProgress, shouldStopImport,
                    isDownloading, downloadProgress, shouldStopDownload>>

\* C24: removeImagePair(i) removes the pair at index i and no other, the
\* rest keeping their order; clearAll empties the registry; neither writes
\* a progress counter, a running flag or a cancellation flag.
C24_RegistryOps == [][C24_RemoveStep /\ C24_ClearStep /\ C24_Frame]_vars

\* The pair under export removed while the export waits on its timer and
\* an import is in flight: the registry is empty and the counters stand.
C24_Witness ==
    /\ splitImages = <<>>
    /\ dlPc = "afterLeft"
    /\ dlImg.id = 1
    /\ regChanged
    /\ isImporting /\ isDownloading
    /\ downloadProgress = [current |-> 1, total |-> 2]

\* C27: the stored angle of every half of every pair in the registry is an
\* integer multiple of 90.
C27_MultipleOf90 ==
    \A k \in 1..Len(splitImages) :
        /\ splitImages[k].leftRotation % 90 = 0
        /\ splitImages[k].rightRotation % 90 = 0

\* Angles below -180 and above 90 after a run of rotation commands.
C27_Witness ==
    /\ Len(splitImages) = 1
    /\ Len(cmdLog) = 4
    /\ splitImages[1].leftRotation = -270
    /\ splitImages[1].rightRotation = 180

\* --------------------------------------------- claims: the top-up control
C25_TopUpStep ==
    (cmdLog' # cmdLog /\ cmdLog'[Len(cmdLog')].d = 0) =>
        LET c == cmdLog'[Len(cmdLog')] IN
        NormalizedRotation(StoredRotation(splitImages', c.id, c.side)) = 0

\* C25: after the 'Rotate top up' command (delta 0) the normalized angle of
\* the half is 0, whatever angle was stored before.
C25_TopUpResets == [][C25_TopUpStep]_vars

\* ------------------------------------ claims: export and a changing registry
C26_ExportStep ==
    Len(exported') > Len(exported) =>
        InSeq(exported'[Len(exported')].id, Ids(splitImages'))

\* C26: downloadChecked exports no half of a pair that is no longer in the
\* registry, the right half of a pair removed during the pause after its
\* left half included.
C26_RemovedNotExported == [][C26_ExportStep]_vars

\* C28: 0 <= downloadProgress.current <= downloadProgress.total in every
\* state, whatever is selected, deselected or removed while the export runs.
C28_ProgressWithinTotal ==
    /\ 0 <= downloadProgress.current
    /\ downloadProgress.current <= downloadProgress.total

\* --------------------------------------------- claims: batches side by side
\* While a batch function is suspended its running flag is set, so the
\* control that would start another batch of its kind does not exist.
C29_FlagCoversBatch ==
    /\ impPc # "idle" => isImporting
    /\ dlPc # "idle" => isDownloading

C29_StartStep ==
    /\ importProgress'.total # importProgress.total =>
           (~isImporting /\ impPc = "idle" /\ isImporting')
    /\ downloadProgress'.total # downloadProgress.total =>
           (~isDownloading /\ dlPc = "idle" /\ isDownloading')
    /\ (impPc = "idle" /\ impPc' # "idle") => (~isImporting /\ isImporting')
    /\ (dlPc = "idle" /\ dlPc' # "idle") => (~isDownloading /\ isDownloading')

\* C29: at most one import batch and one export batch are in flight: a batch
\* starts only while the running flag of its kind is false and no batch of
\* its kind is suspended, and the flag stays set as long as the batch is; an
\* import and an export can be in flight together.
C29_OneBatchPerKind == []C29_FlagCoversBatch /\ [][C29_StartStep]_vars

\* An import waiting for a decode while an export waits on its timer.
C29_Witness ==
    /\ isImporting /\ impPc = "decoding"
    /\ isDownloading /\ dlPc = "afterLeft"
    /\ Len(fileArray) = 3 /\ importProgress.current = 2

C30_FlagsAtRest ==
    /\ impPc = "idle" => ~shouldStopImport
    /\ dlPc = "idle" => ~shouldStopDownload
    /\ ImportBroke => stopAt # -1
    /\ dlCancelled => shouldStopDownload

C30_StartStep ==
    /\ (impPc = "idle" /\ impPc' # "idle") => ~shouldStopImport'
    /\ (dlPc = "idle" /\ dlPc' # "idle") => ~shouldStopDownload'
    /\ (~dlCancelled /\ dlCancelled') => shouldStopDownload

\* C30: a cancellation request does not reach a later batch: the flag is
\* false whenever no batch of its kind is suspended and when one starts, and
\* a batch breaks out of its loop only on a stop pressed during that batch;
\* a stop pressed during the terminal hold is gone when the hold ends.
C30_NoCancelLeak == []C30_FlagsAtRest /\ [][C30_StartStep]_vars

\* Stop pressed during the terminal hold of an import and of an export that
\* both ran to their end.
C30_Witness ==
    /\ impPc = "hold" /\ shouldStopImport /\ ~ImportBroke
    /\ importProgress.current = importProgress.total
    /\ dlPc = "hold" /\ shouldStopDownload /\ ~dlCancelled
    /\ Len(exported) = 2


\* ------------------------------------------------------ claims: select all
\* The halves of the registry whose flag is set, as (index, side).
FlaggedHalves ==
    {h \in (1..Len(splitImages)) \X Sides :
        IF h[2] = "left" THEN splitImages[h[1]].leftChecked
        ELSE splitImages[h[1]].rightChecked}

C31_Getters ==
    /\ allChecked <=>
         (/\ splitImages # <<>>
          /\ FlaggedHalves = (1..Len(splitImages)) \X Sides)
    /\ checkedCount = Cardinality(FlaggedHalves)
    /\ hasCheckedItems <=> checkedCount > 0

C31_SetStep ==
    \A v \in BOOLEAN :
        SetAllChecked(v) =>
            /\ Len(splitImages') = Len(splitImages)
            /\ \A k \in 1..Len(splitImages) :
                   \A f \in DOMAIN splitImages[k] :
                       splitImages'[k][f] =
                           IF f \in {"leftChecked", "rightChecked"} THEN v
                           ELSE splitImages[k][f]
            /\ allChecked' = v

C31_AppendStep == Len(splitImages') > Len(splitImages) => ~allChecked'

\* C31: allChecked holds exactly when the registry is non-empty and every
\* half is selected; checkedCount is the number of selected halves and
\* hasCheckedItems holds exactly when it is positive; setting allChecked to v
\* sets both flags of every pair to v and changes nothing else of a pair;
\* after a step that appends imported pairs allChecked is false.
C31_SelectAll == [](C31_Getters) /\ [][C31_SetStep /\ C31_AppendStep]_vars

\* Two pairs with every half selected, then a third imported: four halves
\* counted, and allChecked is false again.
C31_Witness ==
    /\ Len(splitImages) = 3
    /\ splitImages[1].leftChecked /\ splitImages[1].rightChecked
    /\ splitImages[2].leftChecked /\ splitImages[2].rightChecked
    /\ splitImages[3].id = MaxFiles
    /\ checkedCount = 4
    /\ ~allChecked
    /\ isImporting


\* ---------------------------------------------- claims: fullscreen viewer
C32_AtHome == zoomLevel = 10 /\ panX = Whole(0) /\ panY = Whole(0)

C32_ZoomRange == 5 <= zoomLevel /\ zoomLevel <= 50

C32_Closed == fullscreenSide = Null => C32_AtHome

\* A step of toggleFullscreen(side): the side shown closes, any other state
\* shows side.
C32_ToggleStep ==
    \A side \in Sides :
        ToggleFullscreen(side) =>
            fullscreenSide' = IF fullscreenSide = side THEN Null ELSE side

\* Every step that changes what is shown leaves zoom 1 and pan (0, 0), and
\* zoom and pan change otherwise only while a side is shown and stays shown.
C32_ViewStep ==
    /\ fullscreenSide' # fullscreenSide => C32_AtHome'
    /\ (<<zoomLevel, panX, panY>>' # <<zoomLevel, panX, panY>>
        /\ fullscreenSide' = fullscreenSide) => fullscreenSide # Null

\* C32: toggling the side shown closes the viewer and toggling the other
\* side switches to it; every open, switch, close and Escape leaves zoom 1
\* and pan (0, 0); zoom and pan change under the wheel only while the viewer
\* is open; zoom stays within [0.5, 5]; whenever the viewer is closed zoom is
\* 1 and pan is (0, 0).
C32_ViewerState ==
    /\ [](C32_ZoomRange /\ C32_Closed)
    /\ [][C32_ToggleStep /\ C32_ViewStep]_vars

\* The viewer open on the right half, zoomed out to the lower limit with the
\* pointer once away from the centre, so that the image has moved.
C32_Witness ==
    /\ fullscreenSide = "right"
    /\ zoomLevel = 5
    /\ offCentre = 1
    /\ panX # Whole(0)
    /\ panY # Whole(0)

====
